---- MODULE Spec2Model ----
(***************************************************************************)
(* Collision grid derivation of the Willowbrook frontend.                  *)
(*                                                                         *)
(* WorldRenderer (src/frontend/src/WorldRenderer.ts) keeps a boolean       *)
(* collision grid with an origin offset.  buildWorld(root) recreates it    *)
(* from an environment tree, expandWorld(newNode, root) resizes it and     *)
(* walks only the new subtree, isBlocked(tx, ty) queries it.  MainScene    *)
(* (src/frontend/src/scenes/MainScene.ts) moves agent containers with      *)
(* tweens towards the tile of each state update.                           *)
(***************************************************************************)
EXTENDS Integers, Sequences, FiniteSets, TLC

(***************************************************************************)
(* Bounds of the explored inputs.                                          *)
(***************************************************************************)
\* width and height, in tiles, of the root node of the initial world
WorldW == 2
WorldH == 2
\* most children of the root node in an initial world
MaxChildren == 2
\* most expansions of one world
MaxExpansions == 2
\* most tweens of one agent container alive at a time
MaxTweens == 2
\* frame updates a tween takes from its start value to its end value
TweenFrames == 2
\* the lower of the iteration caps a path search runs under
LowIterations == 3
\* most expansion requests sent in one run
MaxRequests == 2
MaxBubbles == 2
MaxConnects == 2

(***************************************************************************)
(* Environment trees (EnvironmentNode, ApiClient.ts).  A missing w or h is *)
(* the number 0: `node.w || 1` treats both alike, and a for loop bounded   *)
(* by x + undefined runs as often as one bounded by x + 0: never.          *)
(***************************************************************************)
Node(type, x, y, w, h, walkable, children) ==
  [node_type |-> type, x |-> x, y |-> y, w |-> w, h |-> h,
   walkable |-> walkable, children |-> children]

AreaTypes == {"world", "zone", "room", "building"}

\* tiles of the initial world
WorldTiles == (0 .. WorldW - 1) \X (0 .. WorldH - 1)

\* leaf objects: 1x1 walkable (door, flower bed) or blocking (bench, tree),
\* and a blocking object two tiles wide (fountain)
ObjectsAt(t) ==
  { Node("object", t[1], t[2], 1, 1, wk, <<>>) : wk \in BOOLEAN }
    \cup { Node("object", t[1], t[2], 2, 1, FALSE, <<>>) }

Objects == UNION { ObjectsAt(t) : t \in WorldTiles }

\* what an area at (x, y) may hold: nothing, a walkable room on its first
\* tile, or a blocking object on its first tile
AreaChildren(x, y) ==
  { <<>>,
    << Node("room", x, y, 1, 1, TRUE, <<>>) >>,
    << Node("object", x, y, 1, 1, FALSE, <<>>) >> }

\* areas below the root: a walkable zone or a non-walkable building, over
\* the whole world or over its first column
Areas ==
  { Node(k[1], 0, 0, w, WorldH, k[2], c) :
      k \in {<<"zone", TRUE>>, <<"building", FALSE>>},
      w \in {1, WorldW},
      c \in AreaChildren(0, 0) }

Level1 == Objects \cup Areas

RECURSIVE SeqsUpTo(_, _)
SeqsUpTo(S, n) ==
  IF n = 0 THEN { <<>> }
  ELSE LET shorter == SeqsUpTo(S, n - 1)
       IN shorter \cup { Append(s, e) : s \in { q \in shorter : Len(q) = n - 1 }, e \in S }

\* initial worlds: a walkable root with up to MaxChildren children
Roots ==
  { Node("world", 0, 0, WorldW, WorldH, TRUE, cs) : cs \in SeqsUpTo(Level1, MaxChildren) }

\* initial worlds that are expanded later
SeedRoots == { r \in Roots : Len(r.children) <= 1 }

\* the dimensions of a node that lacks one: a missing or zero w or h reads
\* as 0 here (undefined and 0 take the same branch of `||` and of `<`)
Dims == {<<0, 0>>, <<0, 1>>, <<1, 0>>, <<1, 1>>}

\* nodes that may lack a dimension: an object, or a zone that holds nothing,
\* a room or a blocking object
MalformedNodes ==
  { Node("object", t[1], t[2], d[1], d[2], wk, <<>>) :
      t \in WorldTiles, d \in Dims, wk \in BOOLEAN }
    \cup UNION { { Node("zone", t[1], t[2], d[1], d[2], wk, c) : c \in AreaChildren(t[1], t[2]) } :
                   t \in WorldTiles, d \in Dims, wk \in BOOLEAN }

\* worlds whose root, walkable or not, holds at most one such node
MalformedRoots ==
  { Node("world", 0, 0, WorldW, WorldH, wk, cs) :
      wk \in BOOLEAN, cs \in SeqsUpTo(MalformedNodes, 1) }

(***************************************************************************)
(* The collision grid as a value: cells[gy][gx], true = blocked.           *)
(***************************************************************************)
GridOf(cells, w, h, ox, oy) == [cells |-> cells, w |-> w, h |-> h, ox |-> ox, oy |-> oy]

\* the grid of a fresh WorldRenderer
EmptyGrid == GridOf(<<>>, 0, 0, 0, 0)

\* a grid of h rows of w cells filled with false
FilledGridUnblocked(w, h) == [gy \in 0 .. h - 1 |-> [gx \in 0 .. w - 1 |-> FALSE]]

\* Array.from({ length: h }, () => Array(w).fill(true))
FilledGrid(w, h) == [gy \in 0 .. h - 1 |-> [gx \in 0 .. w - 1 |-> TRUE]]

initCollisionGrid(root) == GridOf(FilledGrid(root.w, root.h), root.w, root.h, root.x, root.y)

\* copyCell with the old grid's offset left out of the translation
copyCellNoOldOffset(N, G, x, y, newOffX, newOffY, newW, newH) ==
  LET nx == x - newOffX
      ny == y - newOffY
  IN IF nx >= 0 /\ nx < newW /\ ny >= 0 /\ ny < newH
     THEN [N EXCEPT ![ny][nx] = G.cells[y][x]]
     ELSE N

\* copyCell with the new grid's offset left out of the translation
copyCellNoNewOffset(N, G, x, y, newOffX, newOffY, newW, newH) ==
  LET nx == x + G.ox
      ny == y + G.oy
  IN IF nx >= 0 /\ nx < newW /\ ny >= 0 /\ ny < newH
     THEN [N EXCEPT ![ny][nx] = G.cells[y][x]]
     ELSE N

\* newGrid[ny][nx] = this.collisionGrid[y][x], when (nx, ny) is inside the new grid
copyCell(N, G, x, y, newOffX, newOffY, newW, newH) ==
  LET nx == (x + G.ox) - newOffX
      ny == (y + G.oy) - newOffY
  IN IF nx >= 0 /\ nx < newW /\ ny >= 0 /\ ny < newH
     THEN [N EXCEPT ![ny][nx] = G.cells[y][x]]
     ELSE N

\* for (x = 0; x < this.gridW; x++) ...
RECURSIVE copyRow(_, _, _, _, _, _, _, _)
copyRow(N, G, x, y, newOffX, newOffY, newW, newH) ==
  IF x >= G.w THEN N
  ELSE copyRow(copyCell(N, G, x, y, newOffX, newOffY, newW, newH),
               G, x + 1, y, newOffX, newOffY, newW, newH)

\* for (y = 0; y < this.gridH; y++) for (x = 0; ...) ...
RECURSIVE copyRows(_, _, _, _, _, _, _)
copyRows(N, G, y, newOffX, newOffY, newW, newH) ==
  IF y >= G.h THEN N
  ELSE copyRows(copyRow(N, G, 0, y, newOffX, newOffY, newW, newH),
                G, y + 1, newOffX, newOffY, newW, newH)

\* resizeCollisionGrid that keeps the offset the grid had
resizeCollisionGridKeepsOffset(G, root) ==
  GridOf(copyRows(FilledGrid(root.w, root.h), G, 0, root.x, root.y, root.w, root.h),
         root.w, root.h, G.ox, G.oy)

resizeCollisionGrid(G, root) ==
  LET newW == root.w
      newH == root.h
      newOffX == root.x
      newOffY == root.y
      newGrid == copyRows(FilledGrid(newW, newH), G, 0, newOffX, newOffY, newW, newH)
  IN GridOf(newGrid, newW, newH, newOffX, newOffY)

\* setCollision without the test of the bounds: a write past the end of a
\* row makes the row longer
setCollisionUnclipped(G, tileX, tileY, blocked) ==
  LET gx == tileX - G.ox
      gy == tileY - G.oy
  IN IF gy \in DOMAIN G.cells /\ gx >= 0
     THEN [G EXCEPT !.cells[gy] = (gx :> blocked) @@ G.cells[gy]]
     ELSE G

setCollision(G, tileX, tileY, blocked) ==
  LET gx == tileX - G.ox
      gy == tileY - G.oy
  IN IF gx >= 0 /\ gy >= 0 /\ gx < G.w /\ gy < G.h
     THEN [G EXCEPT !.cells[gy][gx] = blocked]
     ELSE G

\* for (tx = x; tx < xEnd; tx++) setCollision(tx, ty, blocked); the loops
\* read the grid at every step (a grid without cells takes no mark), so that
\* the marks are evaluated one after the other
RECURSIVE markRow(_, _, _, _, _)
markRow(G, tx, ty, xEnd, blocked) ==
  IF tx >= xEnd \/ G.w = 0 THEN G
  ELSE markRow(setCollision(G, tx, ty, blocked), tx + 1, ty, xEnd, blocked)

\* for (ty = y; ty < yEnd; ty++) for (tx = x; tx < xEnd; tx++) ...
RECURSIVE markRect(_, _, _, _, _, _)
markRect(G, x, ty, xEnd, yEnd, blocked) ==
  IF ty >= yEnd \/ G.w = 0 THEN G
  ELSE markRect(markRow(G, x, ty, xEnd, blocked), x, ty + 1, xEnd, yEnd, blocked)

isArea(node) == node.node_type \in AreaTypes

\* node.w || 1
OrOne(n) == IF n = 0 THEN 1 ELSE n

\* markNode without the rule for walkable areas
markNodeNoAreaRule(G, node) ==
  IF ~isArea(node) /\ ~node.walkable
  THEN markRect(G, node.x, node.y, node.x + OrOne(node.w), node.y + OrOne(node.h), TRUE)
  ELSE IF ~isArea(node) /\ node.walkable
  THEN markRect(G, node.x, node.y, node.x + OrOne(node.w), node.y + OrOne(node.h), FALSE)
  ELSE G

\* the three rules buildCollisionFromTree applies to the node itself
markNode(G, node) ==
  IF isArea(node) /\ node.walkable
  THEN markRect(G, node.x, node.y, node.x + node.w, node.y + node.h, FALSE)
  ELSE IF ~isArea(node) /\ ~node.walkable
  THEN markRect(G, node.x, node.y, node.x + OrOne(node.w), node.y + OrOne(node.h), TRUE)
  ELSE IF ~isArea(node) /\ node.walkable
  THEN markRect(G, node.x, node.y, node.x + OrOne(node.w), node.y + OrOne(node.h), FALSE)
  ELSE G

(***************************************************************************)
(* buildCollisionFromTree, with the record of its visits: one entry per    *)
(* node, in the order the nodes are marked, holding the node's path (the   *)
(* child indices from the node the walk started at) and the grid right     *)
(* after the node's own rule ran.                                          *)
(***************************************************************************)
RECURSIVE buildTrace(_, _, _)
RECURSIVE buildChildren(_, _, _, _)

\* buildCollisionFromTree with the node's own rule moved behind the loop over
\* its children
RECURSIVE buildTracePostOrder(_, _, _)
RECURSIVE postOrderChildren(_, _, _, _, _)
buildTracePostOrder(G, node, path) ==
  LET below == postOrderChildren(<<>>, G, node, path, 1)
      g == IF below = <<>> THEN G ELSE below[Len(below)].grid
  IN Append(below, [path |-> path, grid |-> markNode(g, node)])

postOrderChildren(trace, G, node, path, i) ==
  IF i > Len(node.children) THEN trace
  ELSE LET sub == buildTracePostOrder(G, node.children[i], Append(path, i))
       IN postOrderChildren(trace \o sub, sub[Len(sub)].grid, node, path, i + 1)

buildTrace(G, node, path) ==
  buildChildren(<< [path |-> path, grid |-> markNode(G, node)] >>, node, path, 1)

\* for (const child of node.children) this.buildCollisionFromTree(child)
buildChildren(trace, node, path, i) ==
  IF i > Len(node.children) THEN trace
  ELSE buildChildren(
         trace \o buildTrace(trace[Len(trace)].grid, node.children[i], Append(path, i)),
         node, path, i + 1)

buildCollisionFromTree(G, node) ==
  LET trace == buildTrace(G, node, <<>>) IN trace[Len(trace)].grid

\* what buildWorld(root) leaves in the grid
buildWorld(root) == buildCollisionFromTree(initCollisionGrid(root), root)

\* initCollisionGrid that keeps the grid a renderer already has
initCollisionGridOnce(G, root) == IF G.w > 0 THEN G ELSE initCollisionGrid(root)

\* initCollisionGrid(root) on a renderer whose grid is G: each of the five
\* fields is assigned
initCollisionGridOn(G, root) ==
  [G EXCEPT !.ox = root.x, !.oy = root.y, !.w = root.w, !.h = root.h,
            !.cells = FilledGrid(root.w, root.h)]

\* what buildWorld(root) leaves in the grid of a renderer whose grid is G
buildWorldOn(G, root) == buildCollisionFromTree(initCollisionGridOn(G, root), root)

\* what expandWorld(newNode, root) leaves in the grid G
expandWorld(G, newNode, root) == buildCollisionFromTree(resizeCollisionGrid(G, root), newNode)

\* isBlocked with the upper bounds tested by > in place of >=
isBlockedOffByOne(G, tileX, tileY) ==
  LET gx == tileX - G.ox
      gy == tileY - G.oy
  IN IF gx < 0 \/ gy < 0 \/ gx > G.w \/ gy > G.h THEN TRUE
     ELSE IF gy \in DOMAIN G.cells /\ gx \in DOMAIN G.cells[gy] THEN G.cells[gy][gx]
     ELSE FALSE

\* isBlocked on the grid G; a read past a row's end is undefined, which is
\* not true
isBlocked(G, tileX, tileY) ==
  LET gx == tileX - G.ox
      gy == tileY - G.oy
  IN IF gx < 0 \/ gy < 0 \/ gx >= G.w \/ gy >= G.h THEN TRUE
     ELSE IF gy \in DOMAIN G.cells /\ gx \in DOMAIN G.cells[gy] THEN G.cells[gy][gx]
     ELSE FALSE

\* isBlocked throws a TypeError when it indexes a row that does not exist
isBlockedThrows(G, tileX, tileY) ==
  LET gx == tileX - G.ox
      gy == tileY - G.oy
  IN ~(gx < 0 \/ gy < 0 \/ gx >= G.w \/ gy >= G.h) /\ gy \notin DOMAIN G.cells

(***************************************************************************)
(* The expansion response of the server: a new zone of one tile beside the *)
(* root, appended as the root's last child, and the root's bounds grown to *)
(* hold it.                                                                *)
(***************************************************************************)
Directions == {"north", "south", "east", "west"}

ZoneOrigin(root, dir) ==
  CASE dir = "west"  -> <<root.x - 1, root.y>>
    [] dir = "east"  -> <<root.x + root.w, root.y>>
    [] dir = "north" -> <<root.x, root.y - 1>>
    [] dir = "south" -> <<root.x, root.y + root.h>>

\* the new zone: one walkable tile
Zone(x, y, children) == Node("zone", x, y, 1, 1, TRUE, children)

ExpansionNodes(root) ==
  { Zone(ZoneOrigin(root, d)[1], ZoneOrigin(root, d)[2], <<>>) : d \in Directions }
    \cup
  \* a zone that holds a blocking object
  { Zone(root.x + root.w, root.y,
         << Node("object", root.x + root.w, root.y, 1, 1, FALSE, <<>>) >>) }
    \cup
  \* a zone that reaches one tile into the old world
  { Node("zone", root.x - 1, root.y, 2, 1, TRUE, <<>>) }

Min(a, b) == IF a <= b THEN a ELSE b
Max(a, b) == IF a >= b THEN a ELSE b

ExpandedRoot(root, newNode) ==
  LET x0 == Min(root.x, newNode.x)
      y0 == Min(root.y, newNode.y)
      x1 == Max(root.x + root.w, newNode.x + newNode.w)
      y1 == Max(root.y + root.h, newNode.y + newNode.h)
  IN [root EXCEPT !.x = x0, !.y = y0, !.w = x1 - x0, !.h = y1 - y0,
                  !.children = Append(root.children, newNode)]

(***************************************************************************)
(* Agents (MainScene.ts).  A container sits at a pixel position; a state   *)
(* update adds a tween that moves it, in a straight line, to the centre of *)
(* the tile findNearestWalkable returns for the agent's tile.              *)
(***************************************************************************)
TILE_SIZE == 16
RENDER_SCALE == 3
\* const SCALED_TILE = TILE_SIZE * RENDER_SCALE
SCALED_TILE == TILE_SIZE * RENDER_SCALE

\* px / SCALED_TILE cut to an integer towards zero, as (px / SCALED_TILE) | 0
pixelToTileTruncated(px) ==
  IF px >= 0 THEN px \div SCALED_TILE ELSE 0 - ((0 - px) \div SCALED_TILE)

\* Math.floor(px / SCALED_TILE): the greatest integer not above the quotient
pixelToTile(px) ==
  IF px >= 0 THEN px \div SCALED_TILE
  ELSE 0 - (((0 - px) + SCALED_TILE - 1) \div SCALED_TILE)

\* isBlockedAtPixel(px, py) on the grid G
isBlockedAtPixel(G, px, py) == isBlocked(G, pixelToTile(px), pixelToTile(py))

\* the worlds agents walk in: a walkable root one tile wider than WorldW
\* that holds at most one blocking object
WalkTiles == (0 .. WorldW) \X (0 .. WorldH - 1)

WalkWorlds ==
  { Node("world", 0, 0, WorldW + 1, WorldH, TRUE, cs) :
      cs \in { <<>> } \cup { << Node("object", t[1], t[2], 1, 1, FALSE, <<>>) >> : t \in WalkTiles } }

\* radius of the largest ring findNearestWalkable searches
SearchRadius == 2

Abs(n) == IF n < 0 THEN 0 - n ELSE n

\* the perimeter of the square ring of radius r around (x, y)
Ring(x, y, r) ==
  { t \in (x - r .. x + r) \X (y - r .. y + r) : Max(Abs(t[1] - x), Abs(t[2] - y)) = r }

\* the rings around (x, y) that hold an unblocked tile
OpenRings(G, x, y) ==
  { r \in 1 .. SearchRadius : \E t \in Ring(x, y, r) : ~isBlocked(G, t[1], t[2]) }

\* the tiles findNearestWalkable(x, y) may return: the tile itself when it is
\* unblocked, else an unblocked tile of the nearest ring that holds one, else
\* the tile itself
findNearestWalkable(G, x, y) ==
  IF ~isBlocked(G, x, y) \/ OpenRings(G, x, y) = {} THEN { <<x, y>> }
  ELSE LET r == CHOOSE q \in OpenRings(G, x, y) : \A o \in OpenRings(G, x, y) : q <= o
       IN { t \in Ring(x, y, r) : ~isBlocked(G, t[1], t[2]) }

\* safe.x * TILE_SIZE + TILE_SIZE / 2
TileCentre(n) == n * TILE_SIZE + TILE_SIZE \div 2

NoContainer == [exists |-> FALSE, x |-> 0, y |-> 0]

\* this.tweens.add({ targets: container, x: px, y: py, ... }): the tween reads
\* its start value from the container at its first frame update
NewTween(px, py) == [started |-> FALSE, sx |-> 0, sy |-> 0, tx |-> px, ty |-> py, k |-> 0]

\* the value a started tween gives a property after k of TweenFrames frames
Lerp(from, to, k) == from + ((to - from) * k) \div TweenFrames

\* one frame update of the tweens ts[i..] on container position c: a tween at
\* its first update takes c as its start, a started one moves the container a
\* frame further and is dropped when it has reached its end value
RECURSIVE stepTweens(_, _, _, _)
stepTweens(ts, i, c, kept) ==
  IF i > Len(ts) THEN [container |-> c, tweens |-> kept]
  ELSE LET tw == ts[i]
       IN IF ~tw.started
          THEN stepTweens(ts, i + 1, c,
                 Append(kept, [tw EXCEPT !.started = TRUE, !.sx = c.x, !.sy = c.y]))
          ELSE LET k == tw.k + 1
                   moved == [c EXCEPT !.x = Lerp(tw.sx, tw.tx, k), !.y = Lerp(tw.sy, tw.ty, k)]
               IN stepTweens(ts, i + 1, moved,
                    IF k >= TweenFrames THEN kept ELSE Append(kept, [tw EXCEPT !.k = k]))

(***************************************************************************)
(* Pathfinder: findPath(start, goal), a best-first search on the grid over *)
(* 4-directional steps of cost 1, ordered by cost-so-far plus Manhattan    *)
(* distance, ties by insertion order, under a maximum iteration count.     *)
(***************************************************************************)
\* the iteration cap of the pathfinder
MAX_ITERATIONS == 200

\* the worlds paths are searched in: WalkTiles with up to two blocking
\* objects, and a world with no walkable tile
PathWorlds ==
  { Node("world", 0, 0, WorldW + 1, WorldH, FALSE, <<>>) } \cup
  { Node("world", 0, 0, WorldW + 1, WorldH, TRUE, cs) :
      cs \in { <<>> }
        \cup { << Node("object", t[1], t[2], 1, 1, FALSE, <<>>) >> : t \in WalkTiles }
        \cup { << Node("object", p[1][1], p[1][2], 1, 1, FALSE, <<>>),
                  Node("object", p[2][1], p[2][2], 1, 1, FALSE, <<>>) >> :
                 p \in { q \in WalkTiles \X WalkTiles :
                           q[1][2] < q[2][2] \/ (q[1][2] = q[2][2] /\ q[1][1] < q[2][1]) } } }

\* the open 10x10 grid with the single blocked tile (5,5), the starts on its
\* first row and the goals on all of it
ScenarioSize == 10
ScenarioBlocked == 5
ScenarioWorld ==
  Node("world", 0, 0, ScenarioSize, ScenarioSize, TRUE,
       << Node("object", ScenarioBlocked, ScenarioBlocked, 1, 1, FALSE, <<>>) >>)
ScenarioStarts == { <<x, 0>> : x \in 0 .. ScenarioSize - 1 }
ScenarioTiles == (0 .. ScenarioSize - 1) \X (0 .. ScenarioSize - 1)

\* the goals asked for: the tiles of the world, a tile next to it and a tile
\* farther from it than the rings reach
GoalTiles == WalkTiles \cup { <<0 - 1, 0>>, <<0 - SearchRadius - 1, 0>> }

Manhattan(a, b) == Abs(a[1] - b[1]) + Abs(a[2] - b[2])

\* the eight neighbours of a tile
NeighboursDiagonal(t) ==
  << <<t[1], t[2] - 1>>, <<t[1], t[2] + 1>>, <<t[1] - 1, t[2]>>, <<t[1] + 1, t[2]>>,
     <<t[1] - 1, t[2] - 1>>, <<t[1] + 1, t[2] - 1>>,
     <<t[1] - 1, t[2] + 1>>, <<t[1] + 1, t[2] + 1>> >>

\* the four neighbours of a tile, in the order they are tried
Neighbours(t) ==
  << <<t[1], t[2] - 1>>, <<t[1], t[2] + 1>>, <<t[1] - 1, t[2]>>, <<t[1] + 1, t[2]>> >>

\* the place in the open list of the entry expanded next: the least
\* cost-so-far plus heuristic, the earliest inserted among equals
BestOpen(open) ==
  CHOOSE i \in 1 .. Len(open) :
    /\ \A j \in 1 .. Len(open) : open[i].f <= open[j].f
    /\ \A j \in 1 .. i - 1 : open[j].f > open[i].f

RemoveAt(seq, i) == SubSeq(seq, 1, i - 1) \o SubSeq(seq, i + 1, Len(seq))

\* the waypoints from the start (excluded) to tile t (included)
RECURSIVE pathTo(_, _, _)
pathTo(came, start, t) ==
  IF t = start THEN <<>> ELSE Append(pathTo(came, start, came[t]), t)

PathResult(path, outcome, goal, iterations) ==
  [path |-> path, outcome |-> outcome, goal |-> goal, iterations |-> iterations]

\* the discovery of the neighbours nbs[k..] of the entry cur: an unblocked
\* neighbour not yet known, or known at a higher cost, is recorded and queued
RECURSIVE discover(_, _, _, _, _, _)
discover(G, goal, st, cur, nbs, k) ==
  IF k > Len(nbs) THEN st
  ELSE LET n == nbs[k]
           g == cur.g + 1
       IN IF ~isBlocked(G, n[1], n[2]) /\ (n \notin DOMAIN st.best \/ g < st.best[n])
          THEN discover(G, goal,
                 [st EXCEPT !.best = (n :> g) @@ st.best,
                            !.came = (n :> cur.tile) @@ st.came,
                            !.open = Append(st.open, [tile |-> n, g |-> g, f |-> g + Manhattan(n, goal)])],
                 cur, nbs, k + 1)
          ELSE discover(G, goal, st, cur, nbs, k + 1)

\* one iteration of the search loop without the test of the iteration count
searchStepNoCap(G, start, goal, cap, st) ==
  IF st.result.outcome # "none" THEN st
  ELSE IF st.open = <<>>
  THEN [st EXCEPT !.result = PathResult(<<>>, "exhausted", goal, st.iterations)]
  ELSE LET i == BestOpen(st.open)
           cur == st.open[i]
           next == [st EXCEPT !.open = RemoveAt(st.open, i), !.iterations = @ + 1]
       IN IF cur.tile = goal
          THEN [next EXCEPT !.result =
                  PathResult(pathTo(st.came, start, goal), "goal", goal, next.iterations)]
          ELSE IF cur.tile \in st.closed THEN next
          ELSE discover(G, goal, [next EXCEPT !.closed = @ \cup {cur.tile}],
                        cur, Neighbours(cur.tile), 1)

\* one iteration of the search loop: the search ends with an empty path
\* when the open list is empty or the iteration count has reached the cap,
\* and with the path to the goal when the entry taken from the open list is
\* the goal; a tile is expanded once
searchStep(G, start, goal, cap, st) ==
  IF st.result.outcome # "none" THEN st
  ELSE IF st.open = <<>>
  THEN [st EXCEPT !.result = PathResult(<<>>, "exhausted", goal, st.iterations)]
  ELSE IF st.iterations >= cap
  THEN [st EXCEPT !.result = PathResult(<<>>, "cap", goal, st.iterations)]
  ELSE LET i == BestOpen(st.open)
           cur == st.open[i]
           next == [st EXCEPT !.open = RemoveAt(st.open, i), !.iterations = @ + 1]
       IN IF cur.tile = goal
          THEN [next EXCEPT !.result =
                  PathResult(pathTo(st.came, start, goal), "goal", goal, next.iterations)]
          ELSE IF cur.tile \in st.closed THEN next
          ELSE discover(G, goal, [next EXCEPT !.closed = @ \cup {cur.tile}],
                        cur, Neighbours(cur.tile), 1)

\* n iterations of the search loop, or fewer when the search ends earlier
RECURSIVE searchSteps(_, _, _, _, _, _)
searchSteps(G, start, goal, cap, st, n) ==
  IF n = 0 \/ st.result.outcome # "none" THEN st
  ELSE IF n = 1 THEN searchStep(G, start, goal, cap, st)
  ELSE searchSteps(G, start, goal, cap,
                   searchSteps(G, start, goal, cap, st, n \div 2), n - n \div 2)

\* the search loop, run until it has ended: every tile of the grid enters
\* the open list at most once from each neighbour
search(G, start, goal, cap, st) ==
  searchSteps(G, start, goal, cap, st, 4 * (G.w * G.h + 1) + 1).result

\* the search from start to an unblocked goal
aStar(G, start, goal, cap) ==
  search(G, start, goal, cap,
         [open |-> << [tile |-> start, g |-> 0, f |-> Manhattan(start, goal)] >>,
          best |-> (start :> 0),
          came |-> [t \in {} |-> t],
          closed |-> {},
          iterations |-> 0,
          result |-> PathResult(<<>>, "none", goal, 0)])

\* the destination-blocked policy left out: the search runs to the goal asked
EffectiveGoalsNoRing(G, goal) == { goal }

\* the goals a search for `goal` may run to: the goal when it is unblocked,
\* else an unblocked tile of the nearest ring that holds one, else none
EffectiveGoals(G, goal) ==
  IF ~isBlocked(G, goal[1], goal[2]) THEN { goal }
  ELSE IF OpenRings(G, goal[1], goal[2]) = {} THEN {}
  ELSE findNearestWalkable(G, goal[1], goal[2])

\* findPath that answers a search from a tile to itself with that tile
findPathWithStart(G, start, goal, cap) ==
  IF EffectiveGoals(G, goal) = {} THEN { PathResult(<<>>, "nogoal", goal, 0) }
  ELSE { IF start = e THEN PathResult(<< e >>, "trivial", e, 0) ELSE aStar(G, start, e, cap) :
           e \in EffectiveGoals(G, goal) }

\* the results findPath(start, goal) may return on grid G under the cap: no
\* path when a blocked goal has no substitute, no path when the start is the
\* effective goal, else the result of the search
findPath(G, start, goal, cap) ==
  IF EffectiveGoals(G, goal) = {} THEN { PathResult(<<>>, "nogoal", goal, 0) }
  ELSE { IF start = e THEN PathResult(<<>>, "trivial", e, 0) ELSE aStar(G, start, e, cap) :
           e \in EffectiveGoals(G, goal) }

\* no search made yet
NoSearch == [start |-> <<0, 0>>, goal |-> <<0, 0>>, result |-> PathResult(<<>>, "none", <<0, 0>>, 0)]

(***************************************************************************)
(* Path walker: the per-actor state machine Idle -> PathComputing ->       *)
(* Walking -> Idle.  Path computing is synchronous, so a destination       *)
(* change leaves the walker Walking (path found) or Idle (empty path).     *)
(***************************************************************************)
\* pixels an actor advances per frame, and the distance at which it snaps
\* onto a waypoint
WALK_SPEED == 8
ARRIVE_THRESHOLD == 1

NoWalker ==
  [exists |-> FALSE, state |-> "Idle", x |-> 0, y |-> 0, path |-> <<>>, index |-> 0, reached |-> 0]

\* one frame's advance of a coordinate towards `to`
Toward(from, to) ==
  IF Abs(to - from) <= WALK_SPEED THEN to
  ELSE IF to > from THEN from + WALK_SPEED ELSE from - WALK_SPEED

\* the frame of a walking actor in which reaching the last waypoint clears
\* the path and leaves the state as it is
walkFrameStaysWalking(w) ==
  LET cx == TileCentre(w.path[w.index][1])
      cy == TileCentre(w.path[w.index][2])
      nx == Toward(w.x, cx)
      ny == Toward(w.y, cy)
  IN IF Abs(cx - nx) + Abs(cy - ny) > ARRIVE_THRESHOLD
     THEN [w EXCEPT !.x = nx, !.y = ny]
     ELSE IF w.index = Len(w.path)
     THEN [w EXCEPT !.x = cx, !.y = cy, !.path = <<>>, !.index = 0, !.reached = @ + 1]
     ELSE [w EXCEPT !.x = cx, !.y = cy, !.index = @ + 1, !.reached = @ + 1]

\* the frame of a walking actor: it advances towards the centre of the
\* current waypoint; within the threshold it snaps onto the waypoint and
\* takes the next one, or, after the last one, turns Idle and clears the path
walkFrame(w) ==
  LET cx == TileCentre(w.path[w.index][1])
      cy == TileCentre(w.path[w.index][2])
      nx == Toward(w.x, cx)
      ny == Toward(w.y, cy)
  IN IF Abs(cx - nx) + Abs(cy - ny) > ARRIVE_THRESHOLD
     THEN [w EXCEPT !.x = nx, !.y = ny]
     ELSE IF w.index = Len(w.path)
     THEN [w EXCEPT !.x = cx, !.y = cy, !.state = "Idle", !.path = <<>>, !.index = 0,
                    !.reached = @ + 1]
     ELSE [w EXCEPT !.x = cx, !.y = cy, !.index = @ + 1, !.reached = @ + 1]

\* the walker after path computing: Walking on a non-empty path; Idle on an
\* empty one, left in place or, with the teleport fallback, on the tile
\* asked for
afterPathComputing(w, dest, path, teleport) ==
  IF path # <<>>
  THEN [w EXCEPT !.state = "Walking", !.path = path, !.index = 1, !.reached = 0]
  ELSE LET idle == [w EXCEPT !.state = "Idle", !.path = <<>>, !.index = 0, !.reached = 0]
       IN IF teleport
          THEN [idle EXCEPT !.x = TileCentre(dest[1]), !.y = TileCentre(dest[2])]
          ELSE idle

(***************************************************************************)
(* Expansion requests (UIPanel.onExpand, ApiClient.expandWorld): a click   *)
(* on a direction button posts /world/expand and awaits the response.      *)
(***************************************************************************)
\* what a request may meet: a network error (fetch rejects), or a response
\* with an OK or non-OK status and a body that is JSON with success true,
\* JSON with success false, or not JSON
NetworkError == [network |-> FALSE, ok |-> FALSE, body |-> "none"]
Responses ==
  { NetworkError }
    \cup { [network |-> TRUE, ok |-> TRUE, body |-> b] : b \in {"success", "failure", "nonjson"} }
    \cup { [network |-> TRUE, ok |-> FALSE, body |-> b] : b \in {"failure", "nonjson"} }

Thrown == [threw |-> TRUE, success |-> FALSE]
Parsed(success) == [threw |-> FALSE, success |-> success]

\* jsonOrThrow(res): throws on a non-OK status and on a body that does not
\* parse, else returns the parsed body
jsonOrThrow(res) ==
  IF ~res.ok THEN Thrown
  ELSE IF res.body = "nonjson" THEN Thrown
  ELSE Parsed(res.body = "success")

\* await this.api.expandWorld(direction, 0, 0)
apiExpandWorld(response) ==
  IF ~response.network THEN Thrown ELSE jsonOrThrow(response)

\* the log entry onExpand writes when the request has settled
settledEntry(direction, result) ==
  IF result.threw THEN [action |-> "error", outcome |-> "error", direction |-> direction]
  ELSE IF result.success
  THEN [action |-> "expand", outcome |-> "expanded", direction |-> direction]
  ELSE [action |-> "expand", outcome |-> "nochange", direction |-> direction]

\* a settled request that stays in flight when it has failed
settleKeepsFailed(requests, i, result) ==
  IF result.threw \/ ~result.success THEN requests ELSE RemoveAt(requests, i)

\* the requests in flight once request i has settled
settle(requests, i, result) == RemoveAt(requests, i)

(***************************************************************************)
(* The WebSocket of ApiClient.                                             *)
(***************************************************************************)
\* the sockets connectWebSocket has made that have not closed, by state; the
\* reconnectTimer field (true: it holds a handle); the timeouts set by
\* scheduleReconnect that have not fired
ApiOf(sockets, timer, pending) ==
  [sockets |-> sockets, reconnectTimer |-> timer, pendingTimers |-> pending]

NoSockets == [connecting |-> 0, open |-> 0]

\* scheduleReconnect without the test of reconnectTimer
scheduleReconnectUnguarded(A) ==
  [A EXCEPT !.reconnectTimer = TRUE, !.pendingTimers = @ + 1]

\* scheduleReconnect: nothing while a timer is held, else a timeout of 3 s
scheduleReconnect(A) ==
  IF A.reconnectTimer THEN A
  ELSE [A EXCEPT !.reconnectTimer = TRUE, !.pendingTimers = @ + 1]

\* connectWebSocket: a new socket, or scheduleReconnect when the constructor
\* throws
connectWebSocket(A, threw) ==
  IF threw THEN scheduleReconnect(A)
  ELSE [A EXCEPT !.sockets.connecting = @ + 1]

\* ws.onopen
onopen(A) == [A EXCEPT !.sockets.connecting = @ - 1, !.sockets.open = @ + 1]

\* ws.onclose of a socket that was connecting or open
onclose(A, from) == scheduleReconnect([A EXCEPT !.sockets[from] = @ - 1])

\* the callback of the timeout of scheduleReconnect
reconnectTimeout(A, threw) ==
  connectWebSocket([A EXCEPT !.reconnectTimer = FALSE, !.pendingTimers = @ - 1], threw)

(***************************************************************************)
(* Thought bubbles.                                                        *)
(***************************************************************************)
\* the plan step texts a state update may carry; "" when the agent has none
PlanTexts == {"", "cook", "read"}

\* a bubble as showThoughtBubble creates it: not destroyed, its delayedCall
\* pending. `timer` goes from "delayed" to "fading" (the fade-out tween runs)
\* or "expired" (the delayed callback found another bubble), and from
\* "fading" to "completed"
NewBubble == [destroyed |-> FALSE, timer |-> "delayed"]

\* agentMeta.get(agent.id) as createAgentSprite sets it, with the bubbles
\* made for the agent so far; thoughtBubble is the index of one, 0 for null
NoMeta == [planStep |-> "", thoughtBubble |-> 0, bubbles |-> <<>>]

\* showThoughtBubble: the bubble the agent has is destroyed, a new one is made
showThoughtBubble(meta) ==
  LET cleared == IF meta.thoughtBubble # 0
                 THEN [meta EXCEPT !.bubbles[meta.thoughtBubble].destroyed = TRUE,
                                   !.thoughtBubble = 0]
                 ELSE meta
  IN [cleared EXCEPT !.bubbles = Append(@, NewBubble),
                     !.thoughtBubble = Len(cleared.bubbles) + 1]

\* the plan step of a state update: a text that is not empty and differs
\* from meta.planStep is kept and shown
planStepChanges(meta, currentPlanText) ==
  IF currentPlanText # "" /\ currentPlanText # meta.planStep
  THEN showThoughtBubble([meta EXCEPT !.planStep = currentPlanText])
  ELSE meta

\* the callback of time.delayedCall(9000, ...) of bubble b
delayedCall(meta, b) ==
  IF meta.thoughtBubble = b
  THEN [meta EXCEPT !.bubbles[b].timer = "fading"]
  ELSE [meta EXCEPT !.bubbles[b].timer = "expired"]

\* onComplete without the test that the bubble is the agent's
onCompleteUnchecked(meta, b) ==
  [meta EXCEPT !.bubbles[b].timer = "completed",
               !.bubbles[b].destroyed = TRUE,
               !.thoughtBubble = 0]

\* onComplete of the fade-out tween of bubble b
onComplete(meta, b) ==
  IF meta.thoughtBubble = b
  THEN [meta EXCEPT !.bubbles[b].timer = "completed",
                    !.bubbles[b].destroyed = TRUE,
                    !.thoughtBubble = 0]
  ELSE [meta EXCEPT !.bubbles[b].timer = "completed"]

(***************************************************************************)
(* The embedded seed world.                                                *)
(***************************************************************************)
\* environment_root of FALLBACK_SEED_WORLD
FALLBACK_SEED_WORLD ==
  Node("world", 0, 0, 40, 30, TRUE, <<  \* world
    Node("zone", 14, 10, 12, 10, TRUE, <<  \* town_square
      Node("object", 18, 14, 2, 2, FALSE, <<>>),  \* fountain_01
      Node("object", 16, 16, 1, 1, FALSE, <<>>),  \* bench_01
      Node("object", 22, 14, 1, 1, FALSE, <<>>),  \* bench_02
      Node("object", 14, 10, 1, 1, FALSE, <<>>),  \* tree_sq_01
      Node("object", 25, 10, 1, 1, FALSE, <<>>),  \* tree_sq_02
      Node("object", 15, 13, 1, 1, FALSE, <<>>) >>),  \* lamp_01
    Node("zone", 8, 13, 6, 3, TRUE, <<>>),  \* main_road
    Node("building", 2, 10, 6, 8, FALSE, <<  \* house_01
      Node("room", 2, 10, 6, 4, TRUE, <<  \* house_01_kitchen
        Node("object", 2, 10, 1, 1, FALSE, <<>>),  \* kitchen_stove
        Node("object", 3, 10, 1, 1, FALSE, <<>>),  \* kitchen_fridge
        Node("object", 4, 10, 1, 1, FALSE, <<>>),  \* kitchen_sink
        Node("object", 5, 12, 1, 1, FALSE, <<>>),  \* kitchen_table
        Node("object", 4, 12, 1, 1, FALSE, <<>>),  \* kitchen_chair_01
        Node("object", 6, 12, 1, 1, FALSE, <<>>) >>),  \* kitchen_chair_02
      Node("object", 5, 14, 1, 1, TRUE, <<>>),  \* house_01_door
      Node("room", 2, 14, 6, 4, TRUE, <<  \* house_01_bedroom
        Node("object", 2, 15, 1, 2, FALSE, <<>>),  \* bedroom_bed
        Node("object", 5, 14, 1, 1, FALSE, <<>>),  \* bedroom_desk
        Node("object", 7, 14, 1, 1, FALSE, <<>>) >>) >>),  \* bedroom_bookshelf
    Node("zone", 14, 2, 12, 7, TRUE, <<  \* park_area
      Node("object", 15, 3, 1, 1, FALSE, <<>>),  \* park_tree_01
      Node("object", 20, 4, 1, 1, FALSE, <<>>),  \* park_tree_02
      Node("object", 24, 3, 1, 1, FALSE, <<>>),  \* park_tree_03
      Node("object", 17, 5, 1, 1, TRUE, <<>>),  \* park_flowers
      Node("object", 23, 4, 1, 1, FALSE, <<>>),  \* park_bench
      Node("object", 14, 2, 1, 1, FALSE, <<>>) >>),  \* park_bush_01
    Node("object", 8, 12, 1, 1, FALSE, <<>>) >>)  \* mailbox_01

\* the tiles of the agents of FALLBACK_SEED_WORLD: agent_sam, agent_maya
FallbackAgentTiles == {<<4, 11>>, <<16, 16>>}

(***************************************************************************)
(* Rendered objects and the asset registry.                                *)
(***************************************************************************)
\* renderGroup: the nodes whose game objects it holds, and the grid overlay
EmptyGroup == [nodes |-> {}, overlay |-> FALSE]

\* the nodes renderNode adds game objects for: the node and its subtree
RECURSIVE renderNode(_)
renderNode(node) ==
  {node} \cup UNION { renderNode(node.children[i]) : i \in 1 .. Len(node.children) }

\* the fields of the renderer its public calls may touch
RendererOf(G, group) == [grid |-> G, group |-> group]

\* clearAll that drops the collision grid with the game objects
clearAllAndGrid(R) == [R EXCEPT !.group = EmptyGroup, !.grid = EmptyGrid]

\* renderGroup.clear(true, true)
clearAll(R) == [R EXCEPT !.group = EmptyGroup]

\* an asset entry is named by its sprite; null when there is none
Null == "null"

\* the registry the renderer is constructed with: none, or categories of
\* entries by tile key, `_meta` among them
NoRegistry == [present |-> FALSE, categories |-> <<>>]

AssetRegistry ==
  [present |-> TRUE,
   categories |-> << <<"_meta", ("tile_size" :> "16")>>,
                     <<"terrain", ("grass" :> "grass.png")>>,
                     <<"objects", ("door" :> "door.png" @@ "grass" :> "tuft.png")>> >>]

Registries == {NoRegistry, AssetRegistry}

TileKeys == {"grass", "tile_size", "lamp"}

\* the entry of the first category, `_meta` apart, that has the tile key
getAssetEntry(reg, tileKey) ==
  IF ~reg.present THEN Null
  ELSE LET hits == { i \in 1 .. Len(reg.categories) :
                       /\ reg.categories[i][1] # "_meta"
                       /\ tileKey \in DOMAIN reg.categories[i][2] }
       IN IF hits = {} THEN Null
          ELSE reg.categories[CHOOSE i \in hits : \A j \in hits : i <= j][2][tileKey]

(***************************************************************************)
(* The renderer of the pre-built tilemap.                                  *)
(***************************************************************************)
\* the tilemap loaded under the key `the_ville`: its size in tiles, whether it
\* has a layer named Collisions, and the tiles of that layer that hold a tile
TilemapAssets ==
  UNION { { [width |-> w, height |-> h, hasCollisions |-> FALSE, tiles |-> {}] }
            \cup { [width |-> w, height |-> h, hasCollisions |-> TRUE, tiles |-> ts] :
                     ts \in SUBSET ((0 .. w - 1) \X (0 .. h - 1)) } :
          w \in 1 .. WorldW, h \in 1 .. WorldH }

\* `map` before buildWorld, and `collisionLayer` while it is null
NoMap == [built |-> FALSE, width |-> 0, height |-> 0]
NoLayer == [present |-> FALSE, tiles |-> {}]

TilemapRendererOf(map, layer) == [map |-> map, collisionLayer |-> layer]

\* buildWorld(): the map is made from the asset; createLayer gives null for
\* a layer the asset lacks, and collisionLayer is then left as it was
tilemapBuildWorld(R, asset) ==
  [map |-> [built |-> TRUE, width |-> asset.width, height |-> asset.height],
   collisionLayer |-> IF asset.hasCollisions
                      THEN [present |-> TRUE, tiles |-> asset.tiles]
                      ELSE R.collisionLayer]

\* isBlocked(tileX, tileY) of the tilemap renderer
tilemapIsBlocked(R, tileX, tileY) ==
  IF ~R.collisionLayer.present THEN FALSE
  ELSE IF tileX < 0 \/ tileY < 0 \/ tileX >= R.map.width \/ tileY >= R.map.height THEN TRUE
  ELSE <<tileX, tileY>> \in R.collisionLayer.tiles

\* what a query of the renderer returned
NoQuery == [op |-> "none", blocked |-> FALSE, entry |-> Null]

(***************************************************************************)
(* State.                                                                  *)
(***************************************************************************)
VARIABLES
  world,          \* environment_root of the server's world state
  collisionGrid,  \* WorldRenderer.collisionGrid
  gridW,          \* WorldRenderer.gridW
  gridH,          \* WorldRenderer.gridH
  gridOffsetX,    \* WorldRenderer.gridOffsetX
  gridOffsetY,    \* WorldRenderer.gridOffsetY
  lastOp,         \* the last call made on the renderer
  nExpand,        \* expansions so far
  expandFrom,     \* the grid before the last expandWorld
  expandMid,      \* the grid of the last expandWorld right after its resize
  container,      \* agentSprites.get(agent.id): the agent's container
  tweens,         \* the tweens alive on the container, oldest first
  maxIterations,  \* the iteration cap the pathfinder runs under
  pathSearch,     \* the last findPath call: its start, its goal, its result
  walker,         \* ActorMovementState of the actor
  inFlight,       \* the directions of the expansion requests awaiting a response
  nSent,          \* expansion requests sent so far
  activityLog,    \* the entries of the activity log, oldest first
  renderGroup,    \* WorldRenderer.renderGroup
  registry,       \* WorldRenderer.registry
  lastQuery,      \* the last query of the renderer and what it returned
  tilemapAsset,   \* the tilemap in the cache under the key `the_ville`
  map,            \* WorldRenderer.map of the tilemap renderer
  collisionLayer, \* WorldRenderer.collisionLayer of the tilemap renderer
  agentMeta,      \* agentMeta.get(agent.id), with the bubbles made for the agent
  sockets,        \* the WebSockets of ApiClient that have not closed, by state
  reconnectTimer, \* ApiClient.reconnectTimer holds a handle
  pendingTimers,  \* timeouts of scheduleReconnect that have not fired
  nConnect,       \* calls of connectWebSocket the scene has made
  lastSocketEvent, \* what happened last to the connection
  connectTick     \* flips at every call of connectWebSocket

vars == <<world, collisionGrid, gridW, gridH, gridOffsetX, gridOffsetY,
          lastOp, nExpand, expandFrom, expandMid, container, tweens,
          maxIterations, pathSearch, walker, inFlight, nSent, activityLog,
          renderGroup, registry, lastQuery, tilemapAsset, map, collisionLayer,
          agentMeta, sockets, reconnectTimer, pendingTimers, nConnect, lastSocketEvent,
          connectTick>>

agentVars == <<container, tweens, agentMeta>>
pathVars == <<maxIterations, pathSearch, walker>>
requestVars == <<inFlight, nSent, activityLog>>
queryVars == <<registry, lastQuery>>
tilemapVars == <<tilemapAsset, map, collisionLayer>>
socketVars == <<sockets, reconnectTimer, pendingTimers, nConnect, lastSocketEvent, connectTick>>
gridVars == <<collisionGrid, gridW, gridH, gridOffsetX, gridOffsetY>>
rendererVars == <<collisionGrid, gridW, gridH, gridOffsetX, gridOffsetY,
                  lastOp, nExpand, expandFrom, expandMid, renderGroup, queryVars,
                  tilemapVars>>

Grid == GridOf(collisionGrid, gridW, gridH, gridOffsetX, gridOffsetY)

Renderer == RendererOf(Grid, renderGroup)

SetGrid(G) ==
  /\ collisionGrid' = G.cells
  /\ gridW' = G.w
  /\ gridH' = G.h
  /\ gridOffsetX' = G.ox
  /\ gridOffsetY' = G.oy

InitRenderer ==
  /\ collisionGrid = <<>>
  /\ gridW = 0
  /\ gridH = 0
  /\ gridOffsetX = 0
  /\ gridOffsetY = 0
  /\ lastOp = "none"
  /\ nExpand = 0
  /\ expandFrom = EmptyGrid
  /\ expandMid = EmptyGrid
  /\ container = NoContainer
  /\ tweens = <<>>
  /\ pathSearch = NoSearch
  /\ walker = NoWalker
  /\ inFlight = <<>>
  /\ nSent = 0
  /\ activityLog = <<>>
  /\ renderGroup = EmptyGroup
  /\ lastQuery = NoQuery
  /\ map = NoMap
  /\ collisionLayer = NoLayer
  /\ agentMeta = NoMeta
  /\ sockets = NoSockets
  /\ reconnectTimer = FALSE
  /\ pendingTimers = 0
  /\ nConnect = 0
  /\ lastSocketEvent = "none"
  /\ connectTick = 0

\* the assets the scene has loaded
InitAssets ==
  /\ registry = AssetRegistry
  /\ tilemapAsset = CHOOSE a \in TilemapAssets : a.width = 1 /\ a.height = 1 /\ ~a.hasCollisions

\* the scene renders the world the server holds
BuildWorld ==
  /\ SetGrid(buildWorldOn(Grid, world))
  /\ lastOp' = "buildWorld"
  /\ expandFrom' = EmptyGrid
  /\ expandMid' = EmptyGrid
  /\ renderGroup' = [nodes |-> clearAll(Renderer).group.nodes \cup renderNode(world),
                      overlay |-> TRUE]
  /\ UNCHANGED <<world, socketVars, nExpand, agentVars, pathVars, requestVars, queryVars, tilemapVars>>

\* the server grows the world by one of `newNodes` and the scene renders the
\* new zone
ExpandWorldBy(newNodes) ==
  /\ lastOp # "none"
  /\ nExpand < MaxExpansions
  /\ \E newNode \in newNodes :
       LET root == ExpandedRoot(world, newNode)
       IN /\ world' = root
          /\ SetGrid(expandWorld(Grid, newNode, root))
          /\ expandFrom' = Grid
          /\ expandMid' = resizeCollisionGrid(Grid, root)
          /\ renderGroup' = [renderGroup EXCEPT !.nodes = @ \cup renderNode(newNode)]
  /\ lastOp' = "expandWorld"
  /\ nExpand' = nExpand + 1
  /\ UNCHANGED <<socketVars, agentVars, pathVars, requestVars, queryVars, tilemapVars>>

ExpandWorld == ExpandWorldBy(ExpansionNodes(world))

\* a state update names the agent's tile, one of `tiles`, and its plan step,
\* one of `plans`: the first one creates the container on the safe tile, a
\* later one adds a tween towards it and shows a bubble for a new plan step
UpdateAgentPositionsIn(tiles, plans) ==
  /\ lastOp # "none"
  /\ \E a \in tiles : \E safe \in findNearestWalkable(Grid, a[1], a[2]) :
       LET px == TileCentre(safe[1])
           py == TileCentre(safe[2])
       IN IF ~container.exists
          THEN /\ container' = [exists |-> TRUE, x |-> px, y |-> py]
               /\ agentMeta' = NoMeta
               /\ UNCHANGED tweens
          ELSE /\ Len(tweens) < MaxTweens
               /\ tweens' = Append(tweens, NewTween(px, py))
               /\ \E currentPlanText \in plans :
                    /\ agentMeta' = planStepChanges(agentMeta, currentPlanText)
                    /\ Len(agentMeta'.bubbles) <= MaxBubbles
               /\ UNCHANGED container
  /\ UNCHANGED <<world, socketVars, rendererVars, pathVars, requestVars>>

UpdateAgentPositions == UpdateAgentPositionsIn(WalkTiles, {""})

\* a frame of the scene: every tween alive updates the container
TweenUpdate ==
  /\ tweens # <<>>
  /\ LET after == stepTweens(tweens, 1, container, <<>>)
     IN /\ container' = after.container
        /\ tweens' = after.tweens
  /\ UNCHANGED <<world, socketVars, rendererVars, pathVars, requestVars, agentMeta>>

\* the delayed call of a bubble fires, 9 s after the bubble was shown
DelayedCallFires ==
  /\ \E b \in 1 .. Len(agentMeta.bubbles) :
       /\ agentMeta.bubbles[b].timer = "delayed"
       /\ agentMeta' = delayedCall(agentMeta, b)
  /\ UNCHANGED <<world, socketVars, rendererVars, pathVars, requestVars, container, tweens>>

\* the fade-out tween of a bubble completes
FadeOutCompletes ==
  /\ \E b \in 1 .. Len(agentMeta.bubbles) :
       /\ agentMeta.bubbles[b].timer = "fading"
       /\ agentMeta' = onComplete(agentMeta, b)
  /\ UNCHANGED <<world, socketVars, rendererVars, pathVars, requestVars, container, tweens>>

Api == ApiOf(sockets, reconnectTimer, pendingTimers)

SetApi(A) ==
  /\ sockets' = A.sockets
  /\ reconnectTimer' = A.reconnectTimer
  /\ pendingTimers' = A.pendingTimers

\* the scene calls connectWebSocket
ConnectWebSocket ==
  /\ nConnect < MaxConnects
  /\ \E threw \in BOOLEAN :
       /\ SetApi(connectWebSocket(Api, threw))
       /\ lastSocketEvent' = IF threw THEN "failed" ELSE "connect"
  /\ nConnect' = nConnect + 1
  /\ connectTick' = 1 - connectTick
  /\ UNCHANGED <<world, rendererVars, agentVars, pathVars, requestVars>>

\* a connecting socket opens
SocketOpens ==
  /\ sockets.connecting > 0
  /\ SetApi(onopen(Api))
  /\ lastSocketEvent' = "open"
  /\ UNCHANGED <<world, rendererVars, agentVars, pathVars, requestVars, nConnect, connectTick>>

\* a socket closes: a connection that failed, or one that was open
SocketCloses ==
  /\ \E from \in {"connecting", "open"} :
       /\ sockets[from] > 0
       /\ SetApi(onclose(Api, from))
  /\ lastSocketEvent' = "close"
  /\ UNCHANGED <<world, rendererVars, agentVars, pathVars, requestVars, nConnect, connectTick>>

\* the timeout of scheduleReconnect fires
ReconnectTimerFires ==
  /\ pendingTimers > 0
  /\ \E threw \in BOOLEAN :
       /\ SetApi(reconnectTimeout(Api, threw))
       /\ lastSocketEvent' = IF threw THEN "failed" ELSE "connect"
  /\ connectTick' = 1 - connectTick
  /\ UNCHANGED <<world, rendererVars, agentVars, pathVars, requestVars, nConnect>>

\* a state_update arrives on an open socket and the scene's callback runs
OnMessage ==
  /\ sockets.open > 0
  /\ UpdateAgentPositionsIn({<<0, 0>>}, {""})

\* a path is asked for in the built world, from one of `starts` to one of
\* `goals`
FindPathIn(starts, goals) ==
  /\ lastOp = "buildWorld"
  /\ pathSearch.result.outcome = "none"
  /\ \E start \in starts, goal \in goals :
       \E r \in findPath(Grid, start, goal, maxIterations) :
         pathSearch' = [start |-> start, goal |-> goal, result |-> r]
  /\ UNCHANGED <<world, socketVars, rendererVars, agentVars, maxIterations, walker, requestVars>>

FindPath == FindPathIn(WalkTiles, GoalTiles)

FindPathScenario == FindPathIn(ScenarioStarts, ScenarioTiles)

\* the tile the actor is on
WalkerTile == <<walker.x \div TILE_SIZE, walker.y \div TILE_SIZE>>

\* the destination feed names a tile for the actor: the first time the actor
\* is put on the safe tile, later a path is computed from its current tile
SetDestination ==
  /\ lastOp = "buildWorld"
  /\ \E dest \in GoalTiles :
       IF ~walker.exists
       THEN \E safe \in findNearestWalkable(Grid, dest[1], dest[2]) :
              walker' = [NoWalker EXCEPT !.exists = TRUE,
                                         !.x = TileCentre(safe[1]), !.y = TileCentre(safe[2])]
       ELSE \E r \in findPath(Grid, WalkerTile, dest, maxIterations) : \E teleport \in BOOLEAN :
              walker' = afterPathComputing(walker, dest, r.path, teleport)
  /\ UNCHANGED <<world, socketVars, rendererVars, agentVars, maxIterations, pathSearch, requestVars>>

\* a frame of the scene while the actor walks
WalkFrame ==
  /\ walker.state = "Walking"
  /\ walker' = walkFrame(walker)
  /\ UNCHANGED <<world, socketVars, rendererVars, agentVars, maxIterations, pathSearch, requestVars>>

\* a click on the button of a direction: onExpand up to its await
OnExpand(direction) ==
  /\ lastOp = "buildWorld"
  /\ nSent < MaxRequests
  /\ activityLog' = Append(activityLog,
                           [action |-> "expand", outcome |-> "expanding", direction |-> direction])
  /\ inFlight' = Append(inFlight, direction)
  /\ nSent' = nSent + 1
  /\ UNCHANGED <<world, socketVars, rendererVars, agentVars, pathVars>>

\* a request settles with one of `responses`: onExpand from its await on;
\* the server has grown its world when it answers with success
ExpandSettlesWith(responses) ==
  /\ \E i \in 1 .. Len(inFlight), response \in responses :
       LET direction == inFlight[i]
           result == apiExpandWorld(response)
           origin == ZoneOrigin(world, direction)
       IN /\ response.ok /\ response.body = "success" => nExpand < MaxExpansions
          /\ inFlight' = settle(inFlight, i, result)
          /\ activityLog' = Append(activityLog, settledEntry(direction, result))
          /\ IF response.ok /\ response.body = "success"
             THEN /\ world' = ExpandedRoot(world, Zone(origin[1], origin[2], <<>>))
                  /\ nExpand' = nExpand + 1
             ELSE UNCHANGED <<world, nExpand>>
  /\ UNCHANGED <<collisionGrid, gridW, gridH, gridOffsetX, gridOffsetY, lastOp,
                 expandFrom, expandMid, renderGroup, queryVars, tilemapVars, nSent, agentVars,
                 pathVars, socketVars>>

ExpandSettles == ExpandSettlesWith(Responses)

\* the tiles and the pixels the renderer is asked about
ProbeTiles == {<<0 - 1, 0>>, <<0, 0>>}
ProbePixels == {<<0 - 1, 0>>, <<0, 0>>}

\* a call of isBlocked
IsBlockedCall ==
  /\ \E t \in ProbeTiles :
       lastQuery' = [op |-> "isBlocked", blocked |-> isBlocked(Grid, t[1], t[2]), entry |-> Null]
  /\ UNCHANGED <<world, socketVars, gridVars, lastOp, nExpand, expandFrom, expandMid, renderGroup,
                 registry, tilemapVars, agentVars, pathVars, requestVars>>

\* a call of isBlockedAtPixel
IsBlockedAtPixelCall ==
  /\ \E p \in ProbePixels :
       lastQuery' = [op |-> "isBlockedAtPixel", blocked |-> isBlockedAtPixel(Grid, p[1], p[2]),
                     entry |-> Null]
  /\ UNCHANGED <<world, socketVars, gridVars, lastOp, nExpand, expandFrom, expandMid, renderGroup,
                 registry, tilemapVars, agentVars, pathVars, requestVars>>

\* a call of getAssetEntry
GetAssetEntryCall ==
  /\ \E tileKey \in TileKeys :
       lastQuery' = [op |-> "getAssetEntry", blocked |-> FALSE,
                     entry |-> getAssetEntry(registry, tileKey)]
  /\ UNCHANGED <<world, socketVars, gridVars, lastOp, nExpand, expandFrom, expandMid, renderGroup,
                 registry, tilemapVars, agentVars, pathVars, requestVars>>

\* a call of clearAll
ClearAllCall ==
  /\ LET R == clearAll(Renderer)
     IN /\ SetGrid(R.grid)
        /\ renderGroup' = R.group
  /\ UNCHANGED <<world, socketVars, lastOp, nExpand, expandFrom, expandMid, queryVars, tilemapVars,
                 agentVars, pathVars, requestVars>>

TilemapRenderer == TilemapRendererOf(map, collisionLayer)

\* buildWorld() of the tilemap renderer
TilemapBuildWorld ==
  /\ LET R == tilemapBuildWorld(TilemapRenderer, tilemapAsset)
     IN /\ map' = R.map
        /\ collisionLayer' = R.collisionLayer
  /\ UNCHANGED <<world, socketVars, gridVars, lastOp, nExpand, expandFrom, expandMid, renderGroup,
                 queryVars, tilemapAsset, agentVars, pathVars, requestVars>>

\* the tiles the tilemap renderer is asked about: those of the largest map
\* and a ring around them
TilemapProbes == ((0 - 1) .. WorldW) \X ((0 - 1) .. WorldH)

\* a call of isBlocked of the tilemap renderer
TilemapIsBlockedCall ==
  /\ \E t \in TilemapProbes :
       lastQuery' = [op |-> "tilemapIsBlocked",
                     blocked |-> tilemapIsBlocked(TilemapRenderer, t[1], t[2]),
                     entry |-> Null]
  /\ UNCHANGED <<world, socketVars, gridVars, lastOp, nExpand, expandFrom, expandMid, renderGroup,
                 registry, tilemapVars, agentVars, pathVars, requestVars>>

\* the builder on every initial world
Init == world \in Roots /\ InitRenderer /\ maxIterations = MAX_ITERATIONS /\ InitAssets
Next == BuildWorld
Spec == Init /\ [][Next]_vars

\* builds and expansions of the initial worlds with at most one child
InitExpand == world \in SeedRoots /\ InitRenderer /\ maxIterations = MAX_ITERATIONS /\ InitAssets
NextExpand == BuildWorld \/ ExpandWorld
SpecExpand == InitExpand /\ [][NextExpand]_vars

\* an agent in a built world
InitWalk == world \in WalkWorlds /\ InitRenderer /\ maxIterations = MAX_ITERATIONS /\ InitAssets
NextWalk == BuildWorld \/ UpdateAgentPositions \/ TweenUpdate
SpecWalk == InitWalk /\ [][NextWalk]_vars

\* path searches in a built world, under a low and under the full cap
InitPath ==
  /\ world \in PathWorlds
  /\ InitRenderer
  /\ maxIterations \in {LowIterations, MAX_ITERATIONS}
  /\ InitAssets
NextPath == BuildWorld \/ FindPath
SpecPath == InitPath /\ [][NextPath]_vars

\* path searches on the 10x10 grid
InitScenario == world = ScenarioWorld /\ InitRenderer /\ maxIterations = MAX_ITERATIONS /\ InitAssets
NextScenario == BuildWorld \/ FindPathScenario
SpecScenario == InitScenario /\ [][NextScenario]_vars

\* an actor walking paths in a built world
InitWalker == world \in WalkWorlds /\ InitRenderer /\ maxIterations = MAX_ITERATIONS /\ InitAssets
NextWalker == BuildWorld \/ SetDestination \/ WalkFrame
SpecWalker == InitWalker /\ [][NextWalker]_vars

\* expansion requests from the panel of a built world
InitRequest ==
  /\ world \in { r \in SeedRoots : r.children = <<>> }
  /\ InitRenderer
  /\ maxIterations = MAX_ITERATIONS
  /\ InitAssets
NextRequest == BuildWorld \/ (\E direction \in Directions : OnExpand(direction)) \/ ExpandSettles
SpecRequest == InitRequest /\ [][NextRequest]_vars

\* every public call of the renderer, with an agent and expansion requests
InitCalls ==
  /\ world \in { r \in SeedRoots : r.children = <<>> }
  /\ InitRenderer
  /\ maxIterations = MAX_ITERATIONS
  /\ registry \in Registries
  /\ tilemapAsset = CHOOSE a \in TilemapAssets : a.width = 1 /\ a.height = 1 /\ ~a.hasCollisions
NextCalls ==
  \/ BuildWorld
  \/ ExpandWorldBy({Zone(ZoneOrigin(world, "east")[1], ZoneOrigin(world, "east")[2], <<>>)})
  \/ IsBlockedCall
  \/ IsBlockedAtPixelCall
  \/ GetAssetEntryCall
  \/ ClearAllCall
  \/ UpdateAgentPositionsIn({<<0, 0>>}, {""})
  \/ OnExpand("east")
  \/ ExpandSettlesWith({NetworkError, [network |-> TRUE, ok |-> TRUE, body |-> "success"]})
SpecCalls == InitCalls /\ [][NextCalls]_vars

\* the tilemap renderer on every tilemap
InitTilemap ==
  /\ world \in { r \in SeedRoots : r.children = <<>> }
  /\ InitRenderer
  /\ maxIterations = MAX_ITERATIONS
  /\ registry = AssetRegistry
  /\ tilemapAsset \in TilemapAssets
NextTilemap == TilemapBuildWorld \/ TilemapIsBlockedCall
SpecTilemap == InitTilemap /\ [][NextTilemap]_vars

\* the embedded seed world with its agents
InitFallback ==
  /\ world = FALLBACK_SEED_WORLD
  /\ InitRenderer
  /\ maxIterations = MAX_ITERATIONS
  /\ InitAssets
NextFallback == BuildWorld \/ UpdateAgentPositionsIn(FallbackAgentTiles, {""})
SpecFallback == InitFallback /\ [][NextFallback]_vars

\* an agent whose plan step changes while the timers of its bubbles run
InitBubbles ==
  /\ world \in { r \in SeedRoots : r.children = <<>> }
  /\ InitRenderer
  /\ maxIterations = MAX_ITERATIONS
  /\ InitAssets
NextBubbles ==
  \/ BuildWorld
  \/ UpdateAgentPositionsIn({<<0, 0>>}, PlanTexts)
  \/ TweenUpdate
  \/ DelayedCallFires
  \/ FadeOutCompletes
SpecBubbles == InitBubbles /\ [][NextBubbles]_vars

\* the connection of a scene, its timeouts firing in the end
InitReconnect ==
  /\ world \in { r \in SeedRoots : r.children = <<>> }
  /\ InitRenderer
  /\ maxIterations = MAX_ITERATIONS
  /\ InitAssets
NextReconnect ==
  \/ BuildWorld
  \/ ConnectWebSocket
  \/ SocketOpens
  \/ SocketCloses
  \/ ReconnectTimerFires
  \/ OnMessage
SpecReconnect == InitReconnect /\ [][NextReconnect]_vars /\ WF_vars(ReconnectTimerFires)

\* the builder on worlds with nodes that lack a dimension
InitMalformed == world \in MalformedRoots /\ InitRenderer /\ maxIterations = MAX_ITERATIONS /\ InitAssets
NextMalformed == BuildWorld
SpecMalformed == InitMalformed /\ [][NextMalformed]_vars

(***************************************************************************)
(* Vocabulary of the properties.                                           *)
(***************************************************************************)
\* the tiles a query is made for: every tile a world can grow to, and a
\* ring of tiles around them
QueryTiles ==
  ((0 - MaxExpansions - 1) .. (WorldW + MaxExpansions))
    \X ((0 - MaxExpansions - 1) .. (WorldH + MaxExpansions))

\* the tiles of a node's footprint, w x h at (x, y), 1x1 by default
Footprint(node) ==
  (node.x .. node.x + OrOne(node.w) - 1) \X (node.y .. node.y + OrOne(node.h) - 1)

\* the tile lies inside the bounds of grid G
InBounds(G, t) ==
  /\ t[1] - G.ox \in 0 .. G.w - 1
  /\ t[2] - G.oy \in 0 .. G.h - 1

\* the paths (child indices from the root) of the nodes of a tree
RECURSIVE Paths(_)
Paths(node) ==
  { <<>> } \cup UNION { { <<i>> \o p : p \in Paths(node.children[i]) } :
                        i \in 1 .. Len(node.children) }

RECURSIVE NodeAt(_, _)
NodeAt(node, path) ==
  IF path = <<>> THEN node ELSE NodeAt(node.children[Head(path)], Tail(path))

IsPrefix(p, q) == Len(p) <= Len(q) /\ SubSeq(q, 1, Len(p)) = p

\* the nodes of the tree, and those below the node at path p
NodesOf(root) == { NodeAt(root, p) : p \in Paths(root) }
DescendantsOf(root, p) == { NodeAt(root, q) : q \in { r \in Paths(root) : IsPrefix(p, r) /\ r # p } }

IsBlockingObject(n) == ~isArea(n) /\ ~n.walkable
IsLeafObject(n) == ~isArea(n) /\ n.children = <<>>

\* the new subtree of the last expansion: the last child of the root
NewNode == world.children[Len(world.children)]

\* C1: after expandWorld(newNode, newRoot) on the grid built from the old
\* tree, isBlocked agrees at every tile with buildWorld(newRoot) run from
\* scratch on the whole tree.
C1_ExpandEqualsRebuild ==
  lastOp = "expandWorld" =>
    \A t \in QueryTiles :
      isBlocked(Grid, t[1], t[2]) = isBlocked(buildWorld(world), t[1], t[2])

\* C2: after buildWorld(root), every tile of the footprint of every leaf
\* object with walkable = false is blocked, whatever encloses the object and
\* wherever it sits among its siblings.
C2_BlockingObjectsBlocked ==
  lastOp = "buildWorld" =>
    \A n \in NodesOf(world) :
      IsLeafObject(n) /\ ~n.walkable =>
        \A t \in Footprint(n) : isBlocked(Grid, t[1], t[2])

\* a blocking object is among the nodes below the node at path p and
\* overlaps the footprint of that node
BlockedFromBelow(root, p) ==
  \E d \in DescendantsOf(root, p) :
    IsBlockingObject(d) /\ Footprint(d) \cap Footprint(NodeAt(root, p)) # {}

\* a blocking object anywhere in the tree overlaps the footprint of node n
BlockedFromAnywhere(root, n) ==
  \E d \in NodesOf(root) : IsBlockingObject(d) /\ Footprint(d) \cap Footprint(n) # {}

OutOfBounds(t) ==
  \/ t[1] - gridOffsetX < 0 \/ t[1] - gridOffsetX >= gridW
  \/ t[2] - gridOffsetY < 0 \/ t[2] - gridOffsetY >= gridH

\* C4: in every reachable state isBlocked answers true for every tile
\* outside the grid's bounds, and no query raises an error.
C4_OutOfBoundsBlocked ==
  \A t \in QueryTiles :
    /\ ~isBlockedThrows(Grid, t[1], t[2])
    /\ OutOfBounds(t) => isBlocked(Grid, t[1], t[2]) = TRUE

\* after an expansion to the west, a tile of the grid is unblocked and the
\* tile west of it lies outside the grid
C4_Witness ==
  /\ lastOp = "expandWorld"
  /\ gridOffsetX < 0
  /\ \E t \in QueryTiles :
       /\ ~OutOfBounds(t) /\ ~isBlocked(Grid, t[1], t[2])
       /\ <<t[1] - 1, t[2]>> \in QueryTiles /\ OutOfBounds(<<t[1] - 1, t[2]>>)

\* C5: right after resizeCollisionGrid, every tile inside both the old and
\* the new bounds has the blocked value it had right before.
C5_ResizePreservesCells ==
  lastOp = "expandWorld" =>
    \A t \in QueryTiles :
      InBounds(expandFrom, t) /\ InBounds(expandMid, t) =>
        isBlocked(expandMid, t[1], t[2]) = isBlocked(expandFrom, t[1], t[2])

\* a resize moved the origin of a grid whose own origin had moved before,
\* and carried a blocked and an unblocked cell over
C5_Witness ==
  /\ lastOp = "expandWorld"
  /\ expandFrom.ox # 0
  /\ expandMid.oy # expandFrom.oy
  /\ \E t, u \in QueryTiles :
       /\ InBounds(expandFrom, t) /\ InBounds(expandMid, t)
       /\ InBounds(expandFrom, u) /\ InBounds(expandMid, u)
       /\ isBlocked(expandFrom, t[1], t[2]) /\ isBlocked(expandMid, t[1], t[2])
       /\ ~isBlocked(expandFrom, u[1], u[2]) /\ ~isBlocked(expandMid, u[1], u[2])

\* the new subtree lies outside the footprint the root had before
NewSubtreeOutside ==
  \A n \in NodesOf(NewNode) : \A t \in Footprint(n) : ~InBounds(expandFrom, t)

CoveredByWalkable(root, p, t) ==
  \E d \in DescendantsOf(root, p) : d.walkable /\ t \in Footprint(d)

\* C7: after buildWorld(root), every tile of the footprint of a building
\* with walkable = false that no walkable descendant covers is blocked,
\* whatever the walkability of the building's ancestors.
C7_BuildingShellBlocked ==
  lastOp = "buildWorld" =>
    \A p \in Paths(world) :
      LET n == NodeAt(world, p)
      IN n.node_type = "building" /\ ~n.walkable =>
           \A t \in Footprint(n) :
             ~CoveredByWalkable(world, p, t) => isBlocked(Grid, t[1], t[2])

\* the tile the agent's container is on
AgentTile == <<container.x \div TILE_SIZE, container.y \div TILE_SIZE>>

\* C8: every tile an agent occupies, also while it moves from its tile to the
\* tile of a state update, is unblocked in the collision grid.
C8_AgentNeverOnBlockedTile ==
  container.exists => ~isBlocked(Grid, AgentTile[1], AgentTile[2])

\* the tiles the node's own rule marks
MarkedBy(n) ==
  IF isArea(n)
  THEN IF n.walkable THEN (n.x .. n.x + n.w - 1) \X (n.y .. n.y + n.h - 1) ELSE {}
  ELSE Footprint(n)

\* the orders a child list can be put in
PermsOf(seq) ==
  IF seq = <<>> THEN { <<>> }
  ELSE { [i \in 1 .. Len(seq) |-> seq[f[i]]] : f \in Permutations(1 .. Len(seq)) }

\* the tree with the child list of the node at path p replaced
RECURSIVE WithChildren(_, _, _)
WithChildren(node, p, cs) ==
  IF p = <<>> THEN [node EXCEPT !.children = cs]
  ELSE [node EXCEPT !.children[Head(p)] = WithChildren(node.children[Head(p)], Tail(p), cs)]

SameAnswers(G, H) ==
  \A t \in QueryTiles : isBlocked(G, t[1], t[2]) = isBlocked(H, t[1], t[2])

\* C9: buildWorld gives the same isBlocked value at every tile for
\* every permutation of the child list of any node of the tree.
C9_ChildOrderIrrelevant ==
  lastOp = "buildWorld" =>
    \A p \in Paths(world) : \A cs \in PermsOf(NodeAt(world, p).children) :
      SameAnswers(buildWorld(WithChildren(world, p, cs)), Grid)

\* the record of the walk buildWorld made of the world
WorldTrace == buildTrace(initCollisionGrid(world), world, <<>>)

Parent(p) == SubSeq(p, 1, Len(p) - 1)

\* C10: the builder visits a parent before its children, and once a child
\* that applies a mark has been processed, every in-bounds cell its footprint
\* shares with its parent's holds the child's mark (blocked for a
\* non-walkable object, unblocked for a walkable node), and keeps it until a
\* node visited later marks the cell.
C10_ChildMarkOverParent ==
  lastOp = "buildWorld" =>
    LET trace == WorldTrace
        last == Len(trace)
    IN \A j \in 1 .. last :
         LET p == trace[j].path
             n == NodeAt(world, p)
             shared == MarkedBy(n) \cap Footprint(NodeAt(world, Parent(p)))
         IN p # <<>> =>
              /\ \E i \in 1 .. j - 1 : trace[i].path = Parent(p)
              /\ \A t \in shared :
                   InBounds(Grid, t) =>
                     \A k \in j .. last :
                       (\A m \in j + 1 .. k : t \notin MarkedBy(NodeAt(world, trace[m].path)))
                         => isBlocked(trace[k].grid, t[1], t[2]) = IsBlockingObject(n)

\* a world was built in which a blocking object lies on a tile of its
\* walkable parent zone, and the tile is blocked
C10_Witness ==
  /\ lastOp = "buildWorld"
  /\ \E p \in Paths(world) :
       /\ Len(p) = 2
       /\ IsBlockingObject(NodeAt(world, p))
       /\ NodeAt(world, Parent(p)).node_type = "zone"
       /\ NodeAt(world, Parent(p)).walkable
       /\ \E t \in Footprint(NodeAt(world, p)) \cap Footprint(NodeAt(world, Parent(p))) :
            InBounds(Grid, t) /\ isBlocked(Grid, t[1], t[2])

\* the node lacks a dimension
LacksDimension(n) == n.w = 0 \/ n.h = 0

\* the walk reaches every node of the world once
AllVisited(trace) == { trace[j].path : j \in 1 .. Len(trace) } = Paths(world)

\* C11: buildWorld visits every node, and the visit of a node of any kind
\* whose w or h is missing or zero applies the node's rule (unblock for a
\* walkable area or object, block for a non-walkable object, nothing for a
\* non-walkable area) to the tile (x, y) and leaves every other tile as it
\* was.
C11_MissingDimensionIsOneTile ==
  lastOp = "buildWorld" =>
    LET trace == WorldTrace
    IN /\ AllVisited(trace)
       /\ \A j \in 2 .. Len(trace) :
            LET n == NodeAt(world, trace[j].path)
                before == trace[j - 1].grid
                after == trace[j].grid
            IN LacksDimension(n) =>
                 \A t \in QueryTiles :
                   isBlocked(after, t[1], t[2]) =
                     IF t = <<n.x, n.y>> /\ InBounds(before, t) /\ (n.walkable \/ ~isArea(n))
                     THEN ~n.walkable
                     ELSE isBlocked(before, t[1], t[2])

\* a path was asked for and findPath has answered
Searched == pathSearch.result.outcome # "none"

Walkable(t) == ~isBlocked(Grid, t[1], t[2])

\* C12: findPath(a, a) returns an empty path for every walkable tile a.
C12_SameTileEmptyPath ==
  Searched /\ pathSearch.start = pathSearch.goal /\ Walkable(pathSearch.start) =>
    pathSearch.result.path = <<>>

\* findPath(a, a) was answered for a walkable tile a of a world that holds a
\* blocked tile
C12_Witness ==
  /\ Searched
  /\ pathSearch.start = pathSearch.goal
  /\ Walkable(pathSearch.start)
  /\ pathSearch.result.path = <<>>
  /\ \E t \in WalkTiles : ~Walkable(t)

\* the tiles 4-directional steps over unblocked tiles lead to from the set S
RECURSIVE ReachFrom(_)
ReachFrom(S) ==
  LET N == S \cup { n \in UNION { { Neighbours(t)[k] : k \in 1 .. 4 } : t \in S } : Walkable(n) }
  IN IF N = S THEN S ELSE ReachFrom(N)

Reachable(a, b) == b \in ReachFrom({a})

\* the unblocked tiles of the nearest ring around tile t that holds one
Substitutes(t) ==
  { e \in UNION { Ring(t[1], t[2], r) : r \in 1 .. SearchRadius } :
      /\ Walkable(e)
      /\ \A o \in UNION { Ring(t[1], t[2], r) : r \in 1 .. SearchRadius } :
           Walkable(o) =>
             Max(Abs(e[1] - t[1]), Abs(e[2] - t[2])) <= Max(Abs(o[1] - t[1]), Abs(o[2] - t[2])) }

Last(seq) == seq[Len(seq)]

\* C13 as stated: when the goal is blocked, an unblocked tile lies within
\* the ring bound and the tile substituted for the goal is reachable from the
\* start, findPath returns a non-empty path whose last waypoint is the
\* substituted tile and not the goal.
C13_BlockedGoalSubstituted ==
  /\ Searched
  /\ ~Walkable(pathSearch.goal)
  /\ Substitutes(pathSearch.goal) # {}
  /\ Reachable(pathSearch.start, pathSearch.result.goal)
  => /\ pathSearch.result.path # <<>>
     /\ Last(pathSearch.result.path) \in Substitutes(pathSearch.goal)
     /\ Last(pathSearch.result.path) # pathSearch.goal

\* C13 amended: when the goal is blocked and an unblocked tile lies within
\* the ring bound, the search runs to an unblocked tile of the nearest ring
\* that holds one; when that tile is reachable from the start and the search
\* stays under the iteration cap, the path is empty if the start is that
\* tile and otherwise ends on it, never on the goal.
C13_BlockedGoalSubstitutedAmended ==
  Searched /\ ~Walkable(pathSearch.goal) /\ Substitutes(pathSearch.goal) # {} =>
    LET r == pathSearch.result
    IN /\ r.goal \in Substitutes(pathSearch.goal)
       /\ r.goal # pathSearch.goal
       /\ Reachable(pathSearch.start, r.goal) /\ r.outcome # "cap" =>
            IF pathSearch.start = r.goal THEN r.path = <<>>
            ELSE r.path # <<>> /\ Last(r.path) = r.goal

\* a path was found from a start to the tile substituted for a blocked goal
\* inside the world, around a second blocked tile
C13_Witness ==
  /\ Searched
  /\ pathSearch.goal \in WalkTiles
  /\ ~Walkable(pathSearch.goal)
  /\ pathSearch.result.outcome = "goal"
  /\ Len(pathSearch.result.path) > Manhattan(pathSearch.start, pathSearch.result.goal)
  /\ Last(pathSearch.result.path) \in Substitutes(pathSearch.goal)

\* every tile on a ring within the search bound around tile t is outside
\* the grid or holds a blocked cell
NoOpenTileAround(t) ==
  \A r \in 1 .. SearchRadius : \A e \in Ring(t[1], t[2], r) :
    InBounds(Grid, e) => collisionGrid[e[2] - gridOffsetY][e[1] - gridOffsetX]


\* the tile is outside the grid or holds a blocked cell
BlockedCell(t) ==
  InBounds(Grid, t) => collisionGrid[t[2] - gridOffsetY][t[1] - gridOffsetX]

\* C14: when the goal tile is blocked and no unblocked tile lies on any ring
\* within the search bound around it, findPath returns an empty path.
C14_NoSubstituteEmptyPath ==
  Searched /\ BlockedCell(pathSearch.goal) /\ NoOpenTileAround(pathSearch.goal) =>
    pathSearch.result.path = <<>>

\* findPath was answered for a blocked goal inside the world with no
\* unblocked tile within the bound
C14_Witness ==
  /\ Searched
  /\ InBounds(Grid, pathSearch.goal)
  /\ BlockedCell(pathSearch.goal)
  /\ NoOpenTileAround(pathSearch.goal)
  /\ pathSearch.start # pathSearch.goal
  /\ pathSearch.result.outcome = "nogoal"

\* the number of 4-directional steps over unblocked tiles from the set S,
\* d steps from the start, to the tile `to`; -1 when there is no way
RECURSIVE StepsFrom(_, _, _)
StepsFrom(S, to, d) ==
  IF to \in S THEN d
  ELSE LET N == S \cup { n \in UNION { { <<t[1], t[2] - 1>>, <<t[1], t[2] + 1>>,
                                          <<t[1] - 1, t[2]>>, <<t[1] + 1, t[2]>> } : t \in S } :
                           Walkable(n) }
       IN IF N = S THEN 0 - 1 ELSE StepsFrom(N, to, d + 1)

\* the waypoints lead from the start, each one step from the one before,
\* over unblocked tiles
StepByStep(start, path) ==
  \A i \in 1 .. Len(path) :
    /\ Manhattan(IF i = 1 THEN start ELSE path[i - 1], path[i]) = 1
    /\ Walkable(path[i])

\* C15: a path findPath returns is a shortest 4-directional walkable path;
\* on the 10x10 open grid with the single blocked tile (5,5),
\* findPath((0,0),(9,9)) returns exactly 18 waypoints, without the start,
\* ending on (9,9), each one step from the one before, none of them (5,5)
\* or another blocked tile.
C15_ShortestPath ==
  Searched =>
    LET r == pathSearch.result
    IN /\ r.path # <<>> =>
            /\ StepByStep(pathSearch.start, r.path)
            /\ Last(r.path) = r.goal
            /\ Len(r.path) = StepsFrom({pathSearch.start}, r.goal, 0)
       /\ pathSearch.start = <<0, 0>> /\ pathSearch.goal = <<ScenarioSize - 1, ScenarioSize - 1>> =>
            /\ Len(r.path) = 2 * (ScenarioSize - 1)
            /\ Last(r.path) = <<ScenarioSize - 1, ScenarioSize - 1>>
            /\ \A i \in 1 .. Len(r.path) :
                 r.path[i] # <<0, 0>> /\ r.path[i] # <<ScenarioBlocked, ScenarioBlocked>>

\* findPath((0,0),(9,9)) was answered on the 10x10 grid whose tile (5,5) is
\* blocked
C15_Witness ==
  /\ Searched
  /\ gridW = ScenarioSize /\ gridH = ScenarioSize
  /\ ~Walkable(<<ScenarioBlocked, ScenarioBlocked>>)
  /\ pathSearch.start = <<0, 0>>
  /\ pathSearch.goal = <<ScenarioSize - 1, ScenarioSize - 1>>
  /\ pathSearch.result.outcome = "goal"

\* C16: every findPath search has ended, within the maximum iteration
\* count, because the goal was reached, the open set was exhausted or the
\* count was reached (or without a search, for a start that is the goal and
\* for a goal without substitute); an exhausted open set and a reached count
\* give an empty path, and only a reached goal gives waypoints.
C16_SearchEndsBounded ==
  Searched =>
    LET r == pathSearch.result
    IN /\ r.outcome \in {"goal", "exhausted", "cap", "trivial", "nogoal"}
       /\ r.iterations <= maxIterations
       /\ r.outcome \in {"exhausted", "cap"} => r.path = <<>>
       /\ r.outcome = "cap" => r.iterations = maxIterations
       /\ r.outcome = "exhausted" => ~Reachable(pathSearch.start, r.goal)
       /\ r.outcome = "goal" <=> r.path # <<>>

\* a search for a reachable goal was ended by the iteration count
C16_Witness ==
  /\ Searched
  /\ pathSearch.result.outcome = "cap"
  /\ pathSearch.result.path = <<>>
  /\ Reachable(pathSearch.start, pathSearch.result.goal)

\* the pixel the movement added last leads to
FinalDestination == [x |-> Last(tweens).tx, y |-> Last(tweens).ty]

PixelDistance(a, b) == Abs(a.x - b.x) + Abs(a.y - b.y)

\* C17: once an agent's destination has changed, also several times before
\* an earlier movement has completed, every later movement of its container
\* brings it no farther from the destination given last, and when the
\* movements have ended the container is on that destination.
C17_OnlyFinalDestination ==
  [][tweens # <<>> /\ container' # container =>
       /\ PixelDistance(container', FinalDestination) <= PixelDistance(container, FinalDestination)
       /\ tweens' = <<>> => container'.x = FinalDestination.x /\ container'.y = FinalDestination.y]_vars

\* C18: the path walker is never Walking with an empty path: while Walking
\* its waypoint index points into a non-empty path, and whenever it is Idle,
\* after the last waypoint as after an empty path from the pathfinder, the
\* path is cleared.
C18_NeverWalkingWithoutPath ==
  /\ walker.state \in {"Idle", "Walking"}
  /\ walker.state = "Walking" => walker.path # <<>> /\ walker.index \in 1 .. Len(walker.path)
  /\ walker.state = "Idle" => walker.path = <<>> /\ walker.index = 0

\* the actor has walked a path of more than one waypoint to its end
C18_Witness ==
  /\ walker.exists
  /\ walker.state = "Idle"
  /\ walker.path = <<>>
  /\ walker.reached > 1

\* the requests for a direction among the requests in flight
InFlightFor(requests, direction) ==
  Cardinality({ i \in 1 .. Len(requests) : requests[i] = direction })

\* C19: at most one expansion request per direction is in flight at any
\* time.
C19_OneRequestPerDirection ==
  \A direction \in Directions : InFlightFor(inFlight, direction) <= 1

\* the step has settled a request with a failure: a network error, a non-OK
\* status or a body that is not JSON (logged as an error), or success=false
RequestFailed ==
  /\ Len(activityLog') = Len(activityLog) + 1
  /\ Last(activityLog').outcome \in {"error", "nochange"}

\* C20: a step in which an expansion request fails leaves the cells, the
\* offset and the dimensions of the collision grid unchanged and takes one
\* request for the triggering direction out of the requests in flight; and
\* a request for any direction can be sent whatever has failed before.
C20_FailureKeepsGridReleasesDirection ==
  /\ [][RequestFailed =>
          /\ UNCHANGED <<collisionGrid, gridW, gridH, gridOffsetX, gridOffsetY>>
          /\ InFlightFor(inFlight', Last(activityLog').direction)
               = InFlightFor(inFlight, Last(activityLog').direction) - 1]_vars
  /\ [](lastOp = "buildWorld" /\ nSent < MaxRequests =>
          \A direction \in Directions : ENABLED OnExpand(direction))

\* a request for a direction is in flight after an earlier request for the
\* same direction has failed
C20_Witness ==
  \E i \in 1 .. Len(activityLog) : \E j \in i + 1 .. Len(activityLog) :
    /\ activityLog[i].outcome \in {"error", "nochange"}
    /\ activityLog[j].outcome = "expanding"
    /\ activityLog[j].direction = activityLog[i].direction
    /\ InFlightFor(inFlight, activityLog[i].direction) = 1
    /\ Grid = buildWorld(Node("world", 0, 0, WorldW, WorldH, TRUE, <<>>))

\* the pixel coordinates a query is made for: the first, second and last
\* pixel of every tile from two tiles before the initial world to two tiles
\* after it
QueryPixels ==
  { SCALED_TILE * t + o : t \in {0 - 2, 0 - 1, 0, WorldW}, o \in {0, SCALED_TILE - 1} }

\* the tile coordinate whose SCALED_TILE pixels hold the pixel coordinate px
TileHolding(px) ==
  CHOOSE t \in (0 - 3) .. (Max(WorldW, WorldH) + 2) :
    SCALED_TILE * t <= px /\ px < SCALED_TILE * (t + 1)

\* C21: isBlockedAtPixel(px, py) is isBlocked of the tile that holds the
\* pixel, floor(px/48) and floor(py/48), for negative pixel coordinates too:
\* pixel -1 belongs to tile -1.
C21_PixelQueryFloors ==
  /\ SCALED_TILE = 48
  /\ \A px \in QueryPixels, py \in QueryPixels :
       isBlockedAtPixel(Grid, px, py) = isBlocked(Grid, TileHolding(px), TileHolding(py))
  /\ \A py \in QueryPixels :
       isBlockedAtPixel(Grid, 0 - 1, py) = isBlocked(Grid, 0 - 1, TileHolding(py))

\* after an expansion to the west the query for pixel (-1, 0) and the query
\* for tile (0, 0) give different answers
C21_Witness ==
  /\ lastOp = "expandWorld"
  /\ gridOffsetX < 0
  /\ isBlockedAtPixel(Grid, 0 - 1, 0) # isBlocked(Grid, 0, 0)

\* the grid has G.h rows of G.w cells
WellShaped(G) ==
  /\ DOMAIN G.cells = 0 .. G.h - 1
  /\ \A gy \in DOMAIN G.cells : DOMAIN G.cells[gy] = 0 .. G.w - 1

\* the grid the builder finds when it comes to the j-th node of the walk
GridBefore(trace, j) == IF j = 1 THEN initCollisionGrid(world) ELSE trace[j - 1].grid

\* the footprint of the node reaches beyond the bounds of the grid
BeyondBounds(G, n) == \E t \in Footprint(n) : ~InBounds(G, t)

\* C22: when the builder comes to a node whose footprint reaches beyond the
\* bounds of the grid, the grid keeps its offset, its dimensions and its
\* shape, the cells of the node's mark that lie inside the bounds take the
\* mark, and every other cell is left as it was.
C22_FootprintClipped ==
  lastOp = "buildWorld" =>
    LET trace == WorldTrace
    IN \A j \in 1 .. Len(trace) :
         LET n == NodeAt(world, trace[j].path)
             before == GridBefore(trace, j)
             after == trace[j].grid
         IN BeyondBounds(before, n) =>
              /\ WellShaped(after)
              /\ <<after.ox, after.oy, after.w, after.h>> = <<before.ox, before.oy, before.w, before.h>>
              /\ \A t \in QueryTiles :
                   isBlocked(after, t[1], t[2]) =
                     IF t \in MarkedBy(n) /\ InBounds(before, t) THEN ~n.walkable
                     ELSE isBlocked(before, t[1], t[2])

\* a world was built that holds a blocking object with one tile inside the
\* grid, which is blocked, and one tile beyond its last column
C22_Witness ==
  /\ lastOp = "buildWorld"
  /\ \E n \in NodesOf(world) :
       /\ IsBlockingObject(n)
       /\ n.w = 2
       /\ n.x = gridOffsetX + gridW - 1
       /\ isBlocked(Grid, n.x, n.y)
       /\ ~InBounds(Grid, <<n.x + 1, n.y>>)

\* the tiles the nodes of a subtree mark
MarkedBySubtree(node) == UNION { MarkedBy(n) : n \in NodesOf(node) }

\* C23: cells are blocked by default: the grid buildWorld starts from has
\* every cell blocked, and a cell no node marks is blocked in the built grid;
\* after the resize of expandWorld every cell without an old cell is
\* blocked, and it is blocked after expandWorld unless a node of the new
\* subtree marks it.
C23_BlockedByDefault ==
  /\ lastOp # "none" =>
       LET fresh == initCollisionGrid(world)
       IN \A t \in QueryTiles : isBlocked(fresh, t[1], t[2])
  /\ lastOp = "buildWorld" =>
       LET marked == MarkedBySubtree(world)
       IN \A t \in QueryTiles \ marked : isBlocked(Grid, t[1], t[2])
  /\ lastOp = "expandWorld" =>
       LET marked == MarkedBySubtree(NewNode)
       IN \A t \in QueryTiles :
            InBounds(expandMid, t) /\ ~InBounds(expandFrom, t) =>
              /\ isBlocked(expandMid, t[1], t[2])
              /\ t \notin marked => isBlocked(Grid, t[1], t[2])

\* an expansion gave the grid a cell without an old cell that the new
\* subtree does not mark, next to one that it unblocks
C23_Witness ==
  /\ lastOp = "expandWorld"
  /\ \E t \in QueryTiles :
       /\ InBounds(Grid, t) /\ ~InBounds(expandFrom, t)
       /\ t \notin MarkedBySubtree(NewNode)
       /\ isBlocked(Grid, t[1], t[2])
  /\ \E t \in QueryTiles :
       /\ InBounds(Grid, t) /\ ~InBounds(expandFrom, t)
       /\ ~isBlocked(Grid, t[1], t[2])

\* C24: only buildWorld and expandWorld write the grid: a step that changes
\* its cells, its offset or its dimensions is a step of one of the two, so
\* isBlocked, isBlockedAtPixel, getAssetEntry, clearAll, an agent position
\* update and an expansion request leave them as they were.
C24_SingleWriter ==
  [][gridVars' # gridVars => BuildWorld \/ ExpandWorld]_vars

\* every other call has been made on a grid that an expansion resized
C24_Witness ==
  /\ lastOp = "expandWorld"
  /\ gridW > WorldW
  /\ lastQuery.op = "isBlockedAtPixel"
  /\ renderGroup = EmptyGroup
  /\ container.exists
  /\ inFlight # <<>>
  /\ \E i \in 1 .. Len(activityLog) : activityLog[i].outcome # "expanding"

\* a tile outside the map of the tilemap renderer: a negative coordinate,
\* or one at or beyond the width or the height of the map
OutsideMap(t) == t[1] < 0 \/ t[2] < 0 \/ t[1] >= map.width \/ t[2] >= map.height

\* C25: once the tilemap renderer has built its map, isBlocked is true for
\* every tile outside the map in every state, with or without a Collisions
\* layer.
C25_OutsideMapBlocked ==
  map.built =>
    \A t \in TilemapProbes : OutsideMap(t) => tilemapIsBlocked(TilemapRenderer, t[1], t[2])

\* C26: after any sequence of buildWorld and expandWorld the grid has gridH
\* rows of gridW cells each, and its offset and dimensions are the x, y, w
\* and h of the root the last of the calls was given.
C26_GridShape ==
  lastOp # "none" =>
    /\ WellShaped(Grid)
    /\ <<gridOffsetX, gridOffsetY, gridW, gridH>> = <<world.x, world.y, world.w, world.h>>

\* two expansions moved the origin of the grid on both axes
C26_Witness ==
  /\ lastOp = "expandWorld"
  /\ nExpand = MaxExpansions
  /\ gridOffsetX < 0
  /\ gridOffsetY < 0
  /\ gridW > WorldW
  /\ gridH > WorldH

\* C27: buildWorld resets the grid: what a buildWorld(root) leaves is what it
\* leaves on a fresh renderer, whatever builds and expansions came before, and
\* a second buildWorld(root) leaves the same grid again.
C27_BuildWorldResets ==
  [][BuildWorld => /\ Grid' = buildWorldOn(EmptyGrid, world)
                   /\ buildWorldOn(Grid', world) = Grid']_vars

\* the world was rebuilt after the server had grown it past the grid of an
\* earlier build
C27_Witness ==
  /\ lastOp = "buildWorld"
  /\ nExpand > 0
  /\ gridW > WorldW
  /\ Grid = buildWorldOn(EmptyGrid, world)
  /\ \E i \in 1 .. Len(activityLog) : activityLog[i].outcome = "expanded"

\* C28: after buildWorld on the embedded seed world every tile of every
\* object declared walkable, the front door at (5,14) and the flower bed at
\* (17,5), is unblocked.
C28_WalkableObjectsUnblocked ==
  lastOp = "buildWorld" =>
    \A n \in NodesOf(world) :
      n.node_type = "object" /\ n.walkable =>
        \A t \in Footprint(n) : ~isBlocked(Grid, t[1], t[2])

\* the bubbles of the agent that are not destroyed
LiveBubbles == { b \in 1 .. Len(agentMeta.bubbles) : ~agentMeta.bubbles[b].destroyed }

\* this step ran a timer callback of bubble b: its delayed call or the
\* completion of its fade-out
CallbackOf(b) ==
  /\ Len(agentMeta'.bubbles) = Len(agentMeta.bubbles)
  /\ agentMeta.bubbles[b].timer \in {"delayed", "fading"}
  /\ agentMeta'.bubbles[b].timer # agentMeta.bubbles[b].timer

\* C30: an agent has at most one live thought bubble, the one its meta
\* holds: showing a bubble destroys the one before, and a delayed callback
\* or fade-out completion of an earlier bubble neither destroys a bubble
\* shown later nor clears it from the meta, in whatever order plan steps
\* change and timers expire.
C30_OneLiveBubble ==
  /\ [](/\ Cardinality(LiveBubbles) <= 1
        /\ \A b \in LiveBubbles : agentMeta.thoughtBubble = b)
  /\ [][\A b \in 1 .. Len(agentMeta.bubbles) :
          CallbackOf(b) =>
            \A c \in (b + 1) .. Len(agentMeta.bubbles) :
              /\ agentMeta'.bubbles[c].destroyed = agentMeta.bubbles[c].destroyed
              /\ agentMeta.thoughtBubble = c => agentMeta'.thoughtBubble = c]_vars

\* the fade-out of an earlier bubble completed after a later bubble was
\* shown, and the later bubble is live
C30_Witness ==
  \E b \in 1 .. Len(agentMeta.bubbles) :
    /\ b < agentMeta.thoughtBubble
    /\ agentMeta.bubbles[b].timer = "completed"
    /\ agentMeta.bubbles[b].destroyed
    /\ agentMeta.thoughtBubble \in LiveBubbles

\* C29: at most one reconnect timeout is pending at any time, a close or a
\* failed connect while one is pending schedules nothing new, and after every
\* close or failed connect connectWebSocket is called again in the end.
C29_ReconnectNeverStops ==
  /\ [](pendingTimers <= 1)
  /\ [][pendingTimers = 1 /\ lastSocketEvent' = "close" => pendingTimers' = 1]_vars
  /\ \A tick \in {0, 1} :
       (lastSocketEvent \in {"close", "failed"} /\ connectTick = tick) ~> (connectTick # tick)

\* both sockets of the scene have closed and one timeout is pending: the
\* second close came while the timeout of the first was pending
C29_Witness ==
  /\ nConnect = MaxConnects
  /\ lastSocketEvent = "close"
  /\ sockets = NoSockets
  /\ pendingTimers = 1
  /\ reconnectTimer

====
